---------------------------- MODULE Spec2Model ----------------------------
(***************************************************************************)
(* A model of the CurrencyConverter component of src/src/App.js.           *)
(*                                                                         *)
(* The component's useState cells are the variables.  An event handler, a  *)
(* timer continuation and a flush of the passive effects are one action    *)
(* each.  React flushes the pending passive effects of a render before it  *)
(* processes the next update, so every handler and every timer             *)
(* continuation is taken in a state whose effects have run.                *)
(*                                                                         *)
(* Numbers are fixed-point integers: rates and Math.random() draws are in  *)
(* millionths, amounts are whole units, a converted amount is             *)
(* amount * rate in millionths.  A calendar date is a day number, an       *)
(* instant is a number of hours.                                           *)
(***************************************************************************)
EXTENDS Integers, Sequences, FiniteSets, TLC

VARIABLES
    amount,           \* useState(100)
    fromCurrency,     \* useState('USD')
    toCurrency,       \* useState('EUR')
    exchangeRate,     \* useState(null): Null or Some(rate)
    convertedAmount,  \* useState(null): Null or Some(amount * rate)
    loading,          \* useState(false)
    historicalData,   \* useState([]): sequence of [date, rate, displayDate]
    chartPeriod,      \* useState('30d')
    lastUpdated,      \* useState(null): Null or Some("Date")
    pending,          \* fetchExchangeRate calls waiting on setTimeout(500), oldest
                      \* first; each holds the amount its closure captured
    effectDeps,       \* dependency arrays seen by the last run of the two effects
    days,             \* argument of the last generateMockHistoricalData call, -1
                      \* before the first
    trigger,          \* the last history trigger (pair, period, refresh) that no
                      \* generateMockHistoricalData call has followed yet
    userActive        \* the user is still interacting with the page

vars == << amount, fromCurrency, toCurrency, exchangeRate, convertedAmount,
           loading, historicalData, chartPeriod, lastUpdated, pending,
           effectDeps, days, trigger, userActive >>

----------------------------------------------------------------------------
(* Bounds of the model. *)

\* Largest number of fetchExchangeRate calls that may wait at once.
MaxPending == 2

\* Largest window the pure-function specification passes besides 7, 30, 90.
MaxWindowDays == 3

\* A daylight-saving change lies at most this many days before today.
MaxDstDaysAgo == 3

----------------------------------------------------------------------------
(* Values. *)

Null == << >>

Some(v) == << v >>

Max(a, b) == IF a >= b THEN a ELSE b

Abs(x) == IF x < 0 THEN 0 - x ELSE x

\* The codes of the currencies table.
currencies ==
    << "USD", "EUR", "GBP", "JPY", "AUD", "CAD", "CHF", "CNY", "INR", "KRW" >>

CurrencyCodes == { currencies[i] : i \in 1..Len(currencies) }

\* The options a user picks in the two selects.
CodeInputs == { "USD", "EUR" }

\* The period buttons.
Periods == { "7d", "30d", "90d" }

\* Texts typed into the amount input, as sequences of characters.
AmountTexts ==
    { << >>, << "a", "b", "c" >>, << "0" >>, << "2", "5", "0" >>, << "-", "5" >> }

\* Values Math.random() returns, in millionths: the ends of [0, 1) and the
\* draw that cancels sin(0.1) between the last two points of a history.
RandomDraws == << 0, 99833, 999999 >>

\* A stream of Math.random() values: the k-th call of a run returns
\* RandomDraws[(a + b * k) % n + 1].
Seeds == { [a |-> a, b |-> b] : a \in 0..(Len(RandomDraws) - 1), b \in 0..(Len(RandomDraws) - 1) }

\* The streams a session of the component draws from: all draws lowest, all
\* draws highest, and the draws in turn.
SessionSeeds == { [a |-> 0, b |-> 0], [a |-> Len(RandomDraws) - 1, b |-> 0], [a |-> 0, b |-> 1] }

\* The draws of the mock rate in a session: the ends of [0, 1).
RateDraws == { RandomDraws[1], RandomDraws[Len(RandomDraws)] }

Random(seed, k) == RandomDraws[((seed.a + seed.b * k) % Len(RandomDraws)) + 1]

----------------------------------------------------------------------------
(* The clock and the time zone: new Date(), setDate, toISOString.          *)

\* The local calendar day of `today`; only differences of days matter.
Today == 20000

\* today: local wall-clock hour of now.  offset: local minus UTC in hours before
\* the daylight-saving change.  dst: "none", or the change at 02:00 local on day
\* dstDay: "forward" (offset + 1) or "back" (offset - 1).
Env(hour, offset, dst, dstDay) ==
    [hour |-> hour, offset |-> offset, dst |-> dst, dstDay |-> dstDay]

\* The offset the engine uses to turn local wall-clock (d, h) into an instant.
\* A wall-clock hour skipped by "forward" takes the old offset; an hour
\* repeated by "back" is its first occurrence.
OffsetAt(env, d, h) ==
    IF env.dst = "none"
    THEN env.offset
    ELSE IF d * 24 + h < env.dstDay * 24 + 2 + (IF env.dst = "forward" THEN 1 ELSE 0)
         THEN env.offset
         ELSE env.offset + (IF env.dst = "forward" THEN 1 ELSE 0 - 1)

\* date.setDate(date.getDate() - i): the local day moves back i days and the
\* wall-clock time stays; the result is an instant in hours UTC.
SetDateBack(env, i) ==
    LET d == Today - i
    IN  d * 24 + env.hour - OffsetAt(env, d, env.hour)

\* date.toISOString().split('T')[0]: the UTC calendar day of an instant.
ToISODate(instant) == instant \div 24

\* date.toLocaleDateString('en-US', {month, day}): the month and day of the
\* local calendar day setDate moved to.
ToLocaleDate(i) == Today - i

Hours == 0..23

BaseOffsets == { 0 - 5, 0, 9 }

\* Every clock and zone of the pure-function specification.  now is not inside
\* the hour a "forward" change skips.
AllEnvs ==
    { Env(h, o, "none", Today) : h \in Hours, o \in BaseOffsets }
    \cup
    { e \in { Env(h, o, k, Today - n) :
                h \in Hours, o \in BaseOffsets, k \in { "forward", "back" },
                n \in 0..MaxDstDaysAgo } :
        ~(e.dst = "forward" /\ e.dstDay = Today /\ e.hour = 2) }

\* The clock and zone of a session of the component: 19:00 in a zone five hours
\* west of UTC, two days after its clocks went forward.
SessionEnvs == { Env(19, 0 - 5, "forward", Today - 2) }

----------------------------------------------------------------------------
(* generateMockHistoricalData.                                             *)

\* Math.sin(i * 0.1) in millionths, for i = 0..91.
SinTable ==
    << 0, 99833, 198669, 295520, 389418, 479426, 564642, 644218,
       717356, 783327, 841471, 891207, 932039, 963558, 985450, 997495,
       999574, 991665, 973848, 946300, 909297, 863209, 808496, 745705,
       675463, 598472, 515501, 427380, 334988, 239249, 141120, 41581,
       -58374, -157746, -255541, -350783, -442520, -529836, -611858, -687766,
       -756802, -818277, -871576, -916166, -951602, -977530, -993691, -999923,
       -996165, -982453, -958924, -925815, -883455, -832267, -772764, -705540,
       -631267, -550686, -464602, -373877, -279415, -182163, -83089, 16814,
       116549, 215120, 311541, 404850, 494113, 578440, 656987, 728969,
       793668, 850437, 898708, 938000, 967920, 988168, 998543, 998941,
       989358, 969890, 940731, 902172, 854599, 798487, 734397, 662969,
       584917, 501021, 412118, 319098 >>

Sin(i) == SinTable[i + 1]

\* rate.toFixed(4) read back by parseFloat: the nearest multiple of 0.0001.
ToFixed4(x) == ((x + 50) \div 100) * 100

\* 0.85 + Math.random() * 0.3, the first draw of the call.
BaseRate(seed) == 850000 + (Random(seed, 0) * 3) \div 10

\* The point pushed for offset i; it takes draw number n of the call.
Point(env, seed, i, n) ==
    LET date == SetDateBack(env, i)
        fluctuation == ((Sin(i) + Random(seed, n) - 500000) * 5) \div 100
        rate == Max(100000, BaseRate(seed) + fluctuation)
    IN  [date |-> ToISODate(date), rate |-> ToFixed4(rate), displayDate |-> ToLocaleDate(i)]

\* for (let i = days; i >= 0; i--) data.push(...): the j-th point pushed is
\* the one for offset i = d - j + 1; nothing is pushed when d < 0.
generateMockHistoricalData(d, env, seed) ==
    [j \in 1..(d + 1) |-> Point(env, seed, d - j + 1, j)]

----------------------------------------------------------------------------
(* calculateTrend.                                                         *)

Sign(x) == IF x > 0 THEN 1 ELSE IF x < 0 THEN 0 - 1 ELSE 0

\* Math.abs(num / den).toFixed(2), in hundredths: the nearest hundredth.
AbsToFixed2(num, den) == (2 * Abs(num) * 100 + Abs(den)) \div (2 * Abs(den))

\* change is the quotient ((latest - previous) * 100) / previous, kept as the
\* pair of its numerator and denominator.
calculateTrendFirst(data) ==
    IF Len(data) < 2
    THEN [trend |-> "neutral", percentage |-> 0]
    ELSE LET latest == data[Len(data)].rate
             previous == data[1].rate
             num == (latest - previous) * 100
         IN  [trend |-> IF Sign(num) * Sign(previous) > 0 THEN "up"
                        ELSE IF Sign(num) * Sign(previous) < 0 THEN "down"
                        ELSE "neutral",
              percentage |-> AbsToFixed2(num, previous)]

calculateTrend(data) ==
    IF Len(data) < 2
    THEN [trend |-> "neutral", percentage |-> 0]
    ELSE LET latest == data[Len(data)].rate
             previous == data[Len(data) - 1].rate
             num == (latest - previous) * 100
         IN  [trend |-> IF Sign(num) * Sign(previous) > 0 THEN "up"
                        ELSE IF Sign(num) * Sign(previous) < 0 THEN "down"
                        ELSE "neutral",
              percentage |-> AbsToFixed2(num, previous)]

----------------------------------------------------------------------------
(* The amount input: parseFloat(e.target.value) || 0.                      *)

Digits == << "0", "1", "2", "3", "4", "5", "6", "7", "8", "9" >>

IsDigit(c) == \E v \in 1..10 : Digits[v] = c

DigitValue(c) == (CHOOSE v \in 1..10 : Digits[v] = c) - 1

RECURSIVE TrimStart(_)
TrimStart(s) == IF s # << >> /\ Head(s) = " " THEN TrimStart(Tail(s)) ELSE s

\* The longest prefix of digits, folded into its value; Null when there is none.
RECURSIVE DigitsPrefix(_, _)
DigitsPrefix(s, acc) ==
    IF s # << >> /\ IsDigit(Head(s))
    THEN DigitsPrefix(Tail(s), Some((IF acc = Null THEN 0 ELSE acc[1]) * 10 + DigitValue(Head(s))))
    ELSE acc

\* parseFloat on texts of spaces, a sign, digits and other characters (no
\* decimal point or exponent): Null is NaN.
parseFloat(text) ==
    LET s == TrimStart(text)
        signed == s # << >> /\ Head(s) \in { "-", "+" }
        negative == signed /\ Head(s) = "-"
        magnitude == DigitsPrefix(IF signed THEN Tail(s) ELSE s, Null)
    IN  IF magnitude = Null THEN Null
        ELSE Some(IF negative THEN 0 - magnitude[1] ELSE magnitude[1])

\* x || 0: NaN and 0 are falsy.
OrZero(x) == IF x = Null \/ x = Some(0) THEN 0 ELSE x[1]

AmountOf(text) == OrZero(parseFloat(text))

----------------------------------------------------------------------------
(* The component.                                                          *)

\* The dependency arrays of the two useEffect calls, as the current render
\* gives them.
Deps1NoPeriod == << fromCurrency, toCurrency >>

Deps1 == << fromCurrency, toCurrency, chartPeriod >>

Deps2 == << amount, exchangeRate >>

\* An effect runs after the first render and after a render that changed one
\* of its dependencies.
Effect1Due == effectDeps[1] # Some(Deps1)

Effect2Due == effectDeps[2] # Some(Deps2)

\* No effect is waiting to run and no state update is queued.
Settled == ~Effect1Due /\ ~Effect2Due

\* chartPeriod === '7d' ? 7 : chartPeriod === '30d' ? 90 : 30
DaysOfSwapped(period) == IF period = "7d" THEN 7 ELSE IF period = "30d" THEN 90 ELSE 30

\* chartPeriod === '7d' ? 7 : chartPeriod === '30d' ? 30 : 90
DaysOf(period) == IF period = "7d" THEN 7 ELSE IF period = "30d" THEN 30 ELSE 90

\* 0.5 + Math.random() * 2 for the draw u.
MockRateWide(u) == 500000 + u * 2

\* 0.5 + Math.random() * 1.5 for the draw u.
MockRate(u) == 500000 + (u * 3) \div 2

\* if (exchangeRate): null and 0 are falsy.
Truthy(rate) == rate # Null /\ rate # Some(0)

\* What generateMockHistoricalData(d) may return in a session, for each window
\* loadHistoricalData passes: one sequence per clock, zone and random stream.
SessionHistories ==
    [d \in { DaysOf(period) : period \in Periods } |->
        { generateMockHistoricalData(d, env, seed) :
            env \in SessionEnvs, seed \in SessionSeeds }]

Init ==
    /\ amount = 100
    /\ fromCurrency = "USD"
    /\ toCurrency = "EUR"
    /\ exchangeRate = Null
    /\ convertedAmount = Null
    /\ loading = FALSE
    /\ historicalData = << >>
    /\ chartPeriod = "30d"
    /\ lastUpdated = Null
    /\ pending = << >>
    /\ effectDeps = << Null, Null >>
    /\ days = 0 - 1
    /\ trigger = "none"
    /\ userActive = TRUE

\* The flush of the passive effects after a render.  The first effect calls
\* fetchExchangeRate, up to its await, and loadHistoricalData; the second
\* recomputes convertedAmount.  They run in the order of their declaration.
RunEffects ==
    /\ ~Settled
    /\ IF Effect1Due
       THEN /\ loading' = TRUE
            /\ pending' = Append(pending, [amount |-> amount])
            /\ days' = DaysOf(chartPeriod)
            /\ historicalData' \in SessionHistories[DaysOf(chartPeriod)]
            /\ trigger' = "none"
       ELSE UNCHANGED << loading, pending, days, historicalData, trigger >>
    /\ IF Effect2Due /\ Truthy(exchangeRate)
       THEN convertedAmount' = Some(amount * exchangeRate[1])
       ELSE UNCHANGED convertedAmount
    /\ effectDeps' = << Some(Deps1), Some(Deps2) >>
    /\ UNCHANGED << amount, fromCurrency, toCurrency, exchangeRate, chartPeriod,
                    lastUpdated, userActive >>

\* The continuation of a waiting fetchExchangeRate without its finally block.
FetchCompleteNoFinally ==
    /\ Settled
    /\ pending # << >>
    /\ \E u \in RateDraws :
           LET mockRate == MockRate(u)
           IN  /\ exchangeRate' = Some(mockRate)
               /\ convertedAmount' = Some(Head(pending).amount * mockRate)
    /\ lastUpdated' = Some("Date")
    /\ pending' = Tail(pending)
    /\ UNCHANGED << amount, fromCurrency, toCurrency, historicalData, chartPeriod,
                    effectDeps, days, trigger, userActive, loading >>

\* The continuation of the oldest waiting fetchExchangeRate after its delay:
\* the try block and the finally block.  Timers of equal delay fire in the
\* order they were set.
FetchComplete ==
    /\ Settled
    /\ pending # << >>
    /\ \E u \in RateDraws :
           LET mockRate == MockRate(u)
           IN  /\ exchangeRate' = Some(mockRate)
               /\ convertedAmount' = Some(Head(pending).amount * mockRate)
    /\ lastUpdated' = Some("Date")
    /\ loading' = FALSE
    /\ pending' = Tail(pending)
    /\ UNCHANGED << amount, fromCurrency, toCurrency, historicalData, chartPeriod,
                    effectDeps, days, trigger, userActive >>

\* onChange of the amount input.
SetAmount ==
    /\ userActive /\ Settled
    /\ \E text \in AmountTexts : amount' = AmountOf(text)
    /\ UNCHANGED << fromCurrency, toCurrency, exchangeRate, convertedAmount, loading,
                    historicalData, chartPeriod, lastUpdated, pending, effectDeps,
                    days, trigger, userActive >>

\* onChange of the From select: it fires when another option is picked.
SetFromCurrency ==
    /\ userActive /\ Settled /\ Len(pending) < MaxPending
    /\ \E code \in CodeInputs \ { fromCurrency } : fromCurrency' = code
    /\ trigger' = "pair"
    /\ UNCHANGED << amount, toCurrency, exchangeRate, convertedAmount, loading,
                    historicalData, chartPeriod, lastUpdated, pending, effectDeps,
                    days, userActive >>

\* onChange of the To select.
SetToCurrency ==
    /\ userActive /\ Settled /\ Len(pending) < MaxPending
    /\ \E code \in CodeInputs \ { toCurrency } : toCurrency' = code
    /\ trigger' = "pair"
    /\ UNCHANGED << amount, fromCurrency, exchangeRate, convertedAmount, loading,
                    historicalData, chartPeriod, lastUpdated, pending, effectDeps,
                    days, userActive >>

\* onClick of the swap button.
handleSwapCurrencies ==
    /\ userActive /\ Settled /\ Len(pending) < MaxPending
    /\ fromCurrency' = toCurrency
    /\ toCurrency' = fromCurrency
    /\ trigger' = IF fromCurrency # toCurrency THEN "pair" ELSE trigger
    /\ UNCHANGED << amount, exchangeRate, convertedAmount, loading, historicalData,
                    chartPeriod, lastUpdated, pending, effectDeps, days, userActive >>

\* onClick of a period button.
SetChartPeriod ==
    /\ userActive /\ Settled /\ Len(pending) < MaxPending
    /\ \E period \in Periods :
           /\ chartPeriod' = period
           /\ trigger' = IF period # chartPeriod THEN "period" ELSE trigger
    /\ UNCHANGED << amount, fromCurrency, toCurrency, exchangeRate, convertedAmount,
                    loading, historicalData, lastUpdated, pending, effectDeps, days,
                    userActive >>

\* onClick of the Refresh button (disabled while loading): fetchExchangeRate up
\* to its await.
ClickRefresh ==
    /\ userActive /\ Settled /\ Len(pending) < MaxPending
    /\ ~loading
    /\ loading' = TRUE
    /\ pending' = Append(pending, [amount |-> amount])
    /\ trigger' = "refresh"
    /\ UNCHANGED << amount, fromCurrency, toCurrency, exchangeRate, convertedAmount,
                    historicalData, chartPeriod, lastUpdated, effectDeps, days,
                    userActive >>

\* The user stops interacting with the page.
UserStops ==
    /\ userActive /\ Settled
    /\ userActive' = FALSE
    /\ UNCHANGED << amount, fromCurrency, toCurrency, exchangeRate, convertedAmount,
                    loading, historicalData, chartPeriod, lastUpdated, pending,
                    effectDeps, days, trigger >>

Next ==
    \/ RunEffects
    \/ FetchComplete
    \/ SetAmount
    \/ SetFromCurrency
    \/ SetToCurrency
    \/ handleSwapCurrencies
    \/ SetChartPeriod
    \/ ClickRefresh
    \/ UserStops

Spec == Init /\ [][Next]_vars

\* The timers fire and React flushes the effects.
FairSpec == Spec /\ WF_vars(RunEffects) /\ WF_vars(FetchComplete)

----------------------------------------------------------------------------
(* generateMockHistoricalData and calculateTrend on their own: the window, *)
(* the clock, the zone and the random stream are drawn from bounded sets.  *)

WindowDays == (0..MaxWindowDays) \cup { 7, 30, 90 }

\* One call of generateMockHistoricalData, its result kept in historicalData
\* as loadHistoricalData keeps it.
GenerateCall ==
    /\ days = 0 - 1
    /\ \E d \in WindowDays, env \in AllEnvs, seed \in Seeds :
           /\ days' = d
           /\ historicalData' = generateMockHistoricalData(d, env, seed)
    /\ UNCHANGED << amount, fromCurrency, toCurrency, exchangeRate, convertedAmount,
                    loading, chartPeriod, lastUpdated, pending, effectDeps, trigger,
                    userActive >>

GenNext == GenerateCall

GenSpec == Init /\ [][GenNext]_vars

----------------------------------------------------------------------------
(* The claims.                                                             *)

\* C1: in every settled state in which exchangeRate is set, convertedAmount is
\* the current amount times the current exchangeRate.
C1_ConversionConsistent ==
    (Settled /\ exchangeRate # Null) => convertedAmount = Some(amount * exchangeRate[1])

\* C2: at most one fetchExchangeRate call waits on its delay at any time.
C2_AtMostOneInFlight == Len(pending) <= 1

\* C3: generateMockHistoricalData(days) returns days + 1 points whose dates
\* ascend strictly, one calendar day apart, for every clock and zone.
C3_DatesOneDayApart ==
    /\ Len(historicalData) = days + 1
    /\ \A j \in 1..(Len(historicalData) - 1) :
           historicalData[j + 1].date = historicalData[j].date + 1

\* C4: amount is never negative.
C4_AmountNonNegative == amount >= 0

\* C5: a change of the currency pair, a change of chartPeriod and a click on
\* Refresh are each followed by a call of generateMockHistoricalData: no
\* settled state has a trigger that no call has followed.
C5_RegeneratedOnEveryTrigger == Settled => trigger = "none"

\* C5, amended: a change of the currency pair and a change of chartPeriod are
\* each followed by a call of generateMockHistoricalData before the component
\* settles; a click on Refresh starts a fetch and leaves historicalData as it is.
C5_RegeneratedOnPairOrPeriod ==
    [][ /\ Settled' => trigger' \in { "none", "refresh" }
        /\ (trigger' = "refresh" /\ pending' # pending /\ Len(pending') > Len(pending))
               => historicalData' = historicalData ]_vars

C5_Witness ==
    /\ Settled
    /\ trigger = "refresh"
    /\ chartPeriod = "7d"
    /\ Len(historicalData) = 8
    /\ days = 7

\* C6: calculateTrend of a history of fewer than 2 points is neutral with
\* magnitude 0; otherwise its direction is up, down or neutral as the last
\* rate is above, below or equal to the one before it, and its magnitude is the
\* hundredth nearest to |last - prev| / prev * 100.
C6_TrendOfLastTwoPoints ==
    LET t == calculateTrend(historicalData)
        n == Len(historicalData)
    IN  IF n < 2
        THEN t.trend = "neutral" /\ t.percentage = 0
        ELSE LET last == historicalData[n].rate
                 prev == historicalData[n - 1].rate
             IN  /\ (t.trend = "up") = (last > prev)
                 /\ (t.trend = "down") = (last < prev)
                 /\ (t.trend = "neutral") = (last = prev)
                 /\ t.trend \in { "up", "down", "neutral" }
                 \* |percentage / 100 - |last - prev| * 100 / prev| <= 0.005
                 /\ 2 * Abs(t.percentage * prev - Abs(last - prev) * 10000) <= prev
                 /\ t.percentage >= 0

C6_Witness ==
    /\ Len(historicalData) = 31
    /\ calculateTrend(historicalData).trend = "up"
    /\ calculateTrend(historicalData).percentage > 0
    /\ historicalData[1].rate > historicalData[31].rate

\* C7: every point of historicalData has a rate of at least 0.1 with at most 4
\* decimal digits, and exchangeRate, once set, lies in [0.5, 2.0).
C7_RatesWithinBounds ==
    /\ \A j \in 1..Len(historicalData) :
           /\ historicalData[j].rate >= 100000
           /\ historicalData[j].rate % 100 = 0
    /\ exchangeRate # Null => (500000 <= exchangeRate[1] /\ exchangeRate[1] < 2000000)

C7_Witness ==
    /\ exchangeRate = Some(1999998)
    /\ Len(historicalData) = 91
    /\ \E j \in 1..91 : historicalData[j].rate = 775000

\* C8: loading is true whenever a fetchExchangeRate call waits on its delay.
C8_LoadingWhilePending == pending # << >> => loading

\* C9: the component settles: once the user has stopped, it reaches a state
\* with no fetch waiting, loading false, and exchangeRate, convertedAmount and
\* lastUpdated set, and stays there.
C9_Done ==
    /\ Settled
    /\ pending = << >>
    /\ ~loading
    /\ exchangeRate # Null
    /\ convertedAmount # Null
    /\ lastUpdated # Null

C9_Settles == [](~userActive => <>[]C9_Done)

C9_Witness == C9_Done /\ ~userActive /\ chartPeriod = "90d" /\ amount = 0

\* C10: once the effects have run, historicalData has 8, 31 or 91 points as
\* chartPeriod is '7d', '30d' or '90d'; it is empty only before the first run
\* of the effects.
C10_LengthMatchesPeriod ==
    /\ Settled => Len(historicalData) =
                      (CASE chartPeriod = "7d" -> 8
                         [] chartPeriod = "30d" -> 31
                         [] chartPeriod = "90d" -> 91)
    /\ historicalData = << >> => effectDeps[1] = Null

C10_Witness ==
    /\ Settled
    /\ chartPeriod = "90d"
    /\ Len(historicalData) = 91
    /\ fromCurrency = toCurrency
    /\ amount = 0 - 5

=============================================================================
